---- MODULE Spec2Model ----
(***************************************************************************)
(* Model of the authenticated session layer of fbx-exporter:               *)
(* internal/fbx/http_client_session.go (FreeboxSession).                   *)
(*                                                                         *)
(* One session manager is built by NewFreeboxSession (process Main) and    *)
(* then used concurrently by the worker goroutines (Workers) through       *)
(* Get/Post, i.e. FreeboxSession.do.  Time is a global clock in seconds.   *)
(* The retry state is accessed by the code without any lock, so its        *)
(* read-modify-write statements (failureCount++, currentDelay *= 2) are    *)
(* modelled as a load step followed by a store step.                       *)
(***************************************************************************)
EXTENDS Integers, Sequences, FiniteSets, TLC

\* ---------------------------------------------------------------- bounds
\* concurrent specification (Spec): clock horizon and number of Get/Post calls
MaxTime == 7
MaxCalls == 2
\* one goroutine at a time (SpecSeq)
MaxTimeSeq == 12
MaxCallsSeq == 3
\* concurrent callers with a maximum delay below the minimum delay (SpecLowMax)
MaxTimeLowMax == 8
MaxCallsLowMax == 2

\* logins followed on concrete data
MaxLogins == 2
\* concurrent callers with one more call and a shorter clock (SpecRace)
MaxTimeRace == 6
MaxCallsRace == 3

\* ------------------------------------------------------ program constants
DebounceSecs == 5
DefaultMinDelay == 5
DefaultMaxDelay == 60
\* time.Time{} (the zero time) and the saturated result of time.Since on it
ZeroTime == -1
MaxDuration == 1000000

Main == "main"
Workers == {"w1", "w2"}
Procs == Workers \cup {Main}

\* environment strings the process may be started with
EnvMinValues == {"", "1s", "bogus"}
EnvMaxValues == {"", "3s", "bogus"}
AllEnvs == [min : EnvMinValues, max : EnvMaxValues]
\* the environment of the concurrent specification: short delays, so that
\* backoff windows and sleeps end within the clock horizon
ShortEnvs == {[min |-> "1s", max |-> "3s"]}
\* only the maximum delay is overridden, below the default minimum delay
LowMaxEnvs == {[min |-> "", max |-> "3s"]}

\* sentinel errors of the wrapped API and the other error classes
ErrAuthRequired == "errAuthRequired"
ErrInvalidToken == "errInvalidToken"
ErrOther == "errOther"
ErrChallenge == "errChallengeTransport"
ErrSession == "errSessionTransport"
ErrURL == "errGetURL"
NoErr == "nil"
AuthErrors == {ErrAuthRequired, ErrInvalidToken}
ApiOutcomes == {NoErr, ErrAuthRequired, ErrInvalidToken, ErrOther}

NilInfo == 0
NoTok == <<"none">>

VARIABLES
  now,                     \* wall clock, seconds
  env,                     \* process environment: [min, max] duration strings
  pc,                      \* position of each goroutine
  retryConfig,             \* f.retryConfig
  sessionTokenLastUpdate,  \* f.sessionTokenLastUpdate
  sessionTokenLock,        \* holder of f.sessionTokenLock, or "free"
  sessionInfo,             \* f.sessionInfo: index into infos, NilInfo = nil
  oldSessionInfo,          \* f.oldSessionInfo
  infos,                   \* heap of allocated sessionInfo structs
  issued,                  \* device: number of challenges issued so far
  loc,                     \* locals of each goroutine
  calls,                   \* number of Get/Post calls started so far
  gh,                      \* history of each goroutine's current call (observation only)
  consecFail,              \* recordFailure calls completed since the last reset (observation only)
  failedNow,               \* workers whose current call got its auth error at this instant (observation only)
  ep,                      \* the calls that got their auth error at one instant (observation only)
  refused,                 \* a login exchange has failed since the last one that succeeded (observation only)
  osEnv,                   \* what os.Hostname and os.Getenv("FBX_APPNAME") return
  appToken,                \* f.appToken
  authorize,               \* the package variable authorize
  lg,                      \* the goroutine that logs in on concrete data
  wire,                    \* every request handed to f.client so far
  logs                     \* every line handed to the log package so far

\* the login exchange on concrete data
lvars == <<osEnv, appToken, authorize, lg, wire, logs>>

vars == <<now, env, pc, retryConfig, sessionTokenLastUpdate, sessionTokenLock,
          sessionInfo, oldSessionInfo, infos, issued, loc, calls, gh, consecFail,
          failedNow, ep, refused, osEnv, appToken, authorize, lg, wire, logs>>

\* the session manager's scheduling state
mvars == <<now, env, pc, retryConfig, sessionTokenLastUpdate, sessionTokenLock,
           sessionInfo, oldSessionInfo, infos, issued, loc, calls, gh, consecFail,
           failedNow, ep, refused>>

shared == <<retryConfig, sessionTokenLastUpdate, sessionInfo, oldSessionInfo, infos>>

\* ---------------------------------------------------------------- helpers
Min2(a, b) == IF a < b THEN a ELSE b

RECURSIVE Pow2(_)
Pow2(n) == IF n <= 0 THEN 1 ELSE 2 * Pow2(n - 1)

\* a subtraction that forgets the zero time
SinceUnsaturated(t) == now - t

\* time.Since(t): saturates on the zero time
Since(t) == IF t = ZeroTime THEN MaxDuration ELSE now - t

\* time.ParseDuration on the environment strings above, in seconds
ParseDuration(s) ==
  CASE s = "1s" -> [ok |-> TRUE, d |-> 1]
    [] s = "3s" -> [ok |-> TRUE, d |-> 3]
    [] OTHER    -> [ok |-> FALSE, d |-> 0]

\* an override whose parse error is dropped along with the default
EnvDelayUnchecked(s, default) == IF s # "" THEN ParseDuration(s).d ELSE default

EnvDelay(s, default) ==
  IF s # "" /\ ParseDuration(s).ok THEN ParseDuration(s).d ELSE default

newRetryConfig ==
  LET minDelay == EnvDelay(env.min, DefaultMinDelay)
      maxDelay == EnvDelay(env.max, DefaultMaxDelay)
  IN  [minDelay |-> minDelay, maxDelay |-> maxDelay, currentDelay |-> minDelay,
       failureCount |-> 0, lastFailure |-> ZeroTime]

ZeroRetry ==
  [minDelay |-> 0, maxDelay |-> 0, currentDelay |-> 0, failureCount |-> 0,
   lastFailure |-> ZeroTime]

\* the device's challenge number n and the session token it hands out for it
Challenge(n) == <<"challenge", n>>
SessionToken(ch) == <<"token", ch[2]>>

NoLoc == [challenge |-> NoTok, sessionToken |-> NoTok, wakeAt |-> 0, tmp |-> 0, err |-> NoErr]

NoCall ==
  [nAction |-> 0, nRefresh |-> 0, nSleep |-> 0, nRecord |-> 0, nReset |-> 0,
   firstErr |-> NoErr, refreshErr |-> NoErr, result |-> NoErr,
   real |-> FALSE, episode |-> FALSE,
   hdr1 |-> NoTok, hdr2 |-> NoTok, hdrCommitted |-> TRUE, newTok |-> NoTok]

NoEpisode == [on |-> FALSE, at |-> ZeroTime, open |-> 0, real |-> 0, commits |-> 0]

\* the token of the SessionInfo allocated last, i.e. most recently committed
CommittedToken == IF infos = <<>> THEN NoTok ELSE infos[Len(infos)].sessionToken

\* the header taken from the retained previous SessionInfo
addOldHeader == IF oldSessionInfo # NilInfo THEN infos[oldSessionInfo].sessionToken ELSE NoTok

\* addHeader: the value put in X-Fbx-App-Auth (NoTok: no header)
addHeader == IF sessionInfo # NilInfo THEN infos[sessionInfo].sessionToken ELSE NoTok


\* ------------------------------------------------------------ HMAC-SHA1
\* crypto/sha1, crypto/hmac and encoding/hex as called at lines 215-217, on
\* byte sequences.  A 32-bit word is a pair <<high, low>> of 16-bit halves.
RECURSIVE BitAnd(_, _, _)
BitAnd(a, b, n) ==
  IF n = 0 THEN 0 ELSE ((a % 2) * (b % 2)) + 2 * BitAnd(a \div 2, b \div 2, n - 1)

And16(a, b) == BitAnd(a, b, 16)
Xor16(a, b) == a + b - 2 * And16(a, b)
Xor8(a, b) == a + b - 2 * BitAnd(a, b, 8)

WAnd(x, y) == <<And16(x[1], y[1]), And16(x[2], y[2])>>
WXor(x, y) == <<Xor16(x[1], y[1]), Xor16(x[2], y[2])>>
WNot(x) == <<65535 - x[1], 65535 - x[2]>>
WOr(x, y) == <<x[1] + y[1] - And16(x[1], y[1]), x[2] + y[2] - And16(x[2], y[2])>>

\* rotate left by n bits, 0 < n < 16, and by any 0 < n < 32
RotlSmall(x, n) ==
  <<((x[1] * Pow2(n)) % 65536) + (x[2] \div Pow2(16 - n)),
    ((x[2] * Pow2(n)) % 65536) + (x[1] \div Pow2(16 - n))>>
Rotl(x, n) == IF n < 16 THEN RotlSmall(x, n) ELSE RotlSmall(<<x[2], x[1]>>, n - 16)

\* addition modulo 2^32
WAdd(x, y) ==
  LET lo == x[2] + y[2]
  IN  <<(x[1] + y[1] + (lo \div 65536)) % 65536, lo % 65536>>
WAdd5(a, b, c, d, e) == WAdd(WAdd(WAdd(a, b), WAdd(c, d)), e)

Zeros(n) == [i \in 1..n |-> 0]

\* the message length in bits, 8 bytes big-endian (messages below 8 KiB)
LenBytes(n) ==
  <<0, 0, 0, 0, 0, (n * 8) \div 65536, ((n * 8) \div 256) % 256, (n * 8) % 256>>

\* the message, a 1 bit, zeros up to 56 modulo 64 bytes, the length
Pad(msg) ==
  LET n == Len(msg)
  IN  msg \o <<128>> \o Zeros((119 - (n % 64)) % 64) \o LenBytes(n)

WordAt(bs, i) == <<bs[i] * 256 + bs[i + 1], bs[i + 2] * 256 + bs[i + 3]>>
WordBytes(x) == <<x[1] \div 256, x[1] % 256, x[2] \div 256, x[2] % 256>>

\* the message schedule: 16 words expanded to 80, k words at a time.  A
\* bound variable holds a value that is computed once
RECURSIVE ExpandBy(_, _)
ExpandBy(w, k) ==
  IF k = 0 THEN w
  ELSE LET t == Len(w) + 1
       IN  CHOOSE r \in {ExpandBy(x, m) :
                           x \in {Append(w, Rotl(WXor(WXor(w[t - 3], w[t - 8]),
                                                      WXor(w[t - 14], w[t - 16])), 1))},
                           m \in {k - 1}} : TRUE

Expand(w) ==
  CHOOSE r \in {ExpandBy(c, 16) : c \in {ExpandBy(b, 16) : b \in {ExpandBy(a, 16) :
                  a \in {ExpandBy(w, 16)}}}} : TRUE

RoundF(t, b, c, d) ==
  IF t < 20 THEN WOr(WAnd(b, c), WAnd(WNot(b), d))
  ELSE IF t < 40 THEN WXor(WXor(b, c), d)
  ELSE IF t < 60 THEN WOr(WOr(WAnd(b, c), WAnd(b, d)), WAnd(c, d))
  ELSE WXor(WXor(b, c), d)

\* 5A827999, 6ED9EBA1, 8F1BBCDC, CA62C1D6
RoundK(t) ==
  IF t < 20 THEN <<23170, 31129>>
  ELSE IF t < 40 THEN <<28377, 60321>>
  ELSE IF t < 60 THEN <<36635, 48348>>
  ELSE <<51810, 49622>>

\* round t on the working variables s = <<a, b, c, d, e>>
Round(t, s, w) ==
  <<WAdd5(Rotl(s[1], 5), RoundF(t, s[2], s[3], s[4]), s[5], RoundK(t), w[t + 1]),
    s[1], Rotl(s[2], 30), s[3], s[4]>>

\* rounds t..last
RECURSIVE Rounds(_, _, _, _)
Rounds(t, last, s, w) ==
  IF t > last THEN s
  ELSE CHOOSE r \in {Rounds(u, last, n, w) : n \in {Round(t, s, w)}, u \in {t + 1}} : TRUE

\* one 64-byte block, starting at byte i of bs: four stages of 20 rounds
Block(h, bs, i) ==
  CHOOSE r \in {[j \in 1..5 |-> WAdd(h[j], s4[j])] :
                  s4 \in UNION {{Rounds(60, 79, s3, w) :
                    s3 \in {Rounds(40, 59, s2, w) :
                      s2 \in {Rounds(20, 39, s1, w) :
                        s1 \in {Rounds(0, 19, h, w)}}}} :
                          w \in {Expand([j \in 1..16 |-> WordAt(bs, i + 4 * (j - 1))])}}} : TRUE

RECURSIVE Blocks(_, _, _)
Blocks(h, bs, i) == IF i > Len(bs) THEN h ELSE Blocks(Block(h, bs, i), bs, i + 64)

\* 67452301, EFCDAB89, 98BADCFE, 10325476, C3D2E1F0
Sha1Init ==
  <<<<26437, 8961>>, <<61389, 43913>>, <<39098, 56574>>, <<4146, 21622>>,
    <<50130, 57840>>>>

Sha1(msg) ==
  LET h == Blocks(Sha1Init, Pad(msg), 1)
  IN  WordBytes(h[1]) \o WordBytes(h[2]) \o WordBytes(h[3]) \o WordBytes(h[4])
        \o WordBytes(h[5])

\* hmac.New(sha1.New, key), Write(msg), Sum(nil)
HmacSha1(key, msg) ==
  LET k0 == IF Len(key) > 64 THEN Sha1(key) ELSE key
      k == k0 \o Zeros(64 - Len(k0))
      ipad == [i \in 1..64 |-> Xor8(k[i], 54)]
      opad == [i \in 1..64 |-> Xor8(k[i], 92)]
  IN  Sha1(opad \o Sha1(ipad \o msg))

HexDigit(n) ==
  CASE n = 0 -> "0" [] n = 1 -> "1" [] n = 2 -> "2" [] n = 3 -> "3"
    [] n = 4 -> "4" [] n = 5 -> "5" [] n = 6 -> "6" [] n = 7 -> "7"
    [] n = 8 -> "8" [] n = 9 -> "9" [] n = 10 -> "a" [] n = 11 -> "b"
    [] n = 12 -> "c" [] n = 13 -> "d" [] n = 14 -> "e" [] n = 15 -> "f"

\* hex.EncodeToString
RECURSIVE EncodeToString(_)
EncodeToString(bs) ==
  IF bs = <<>> THEN ""
  ELSE HexDigit(Head(bs) \div 16) \o HexDigit(Head(bs) % 16) \o EncodeToString(Tail(bs))

\* ------------------------------------------------------ login, concrete
\* the strings the login exchange is run on
AppTokens == {"secret", "Secret"}
ChallengeTexts == {"abc123", " abc123", "abc123 ", "ABC123"}
SessionTexts == {"sess-1", "sess-2"}
HostNames == {"fbx-host"}
AppNameValues == {"", "my-exporter"}

\* what the caller of Get/Post supplies as callbacks, each given by the
\* headers it would set on the request: none, or one decorator
CallerCallbacks == {{}, {<<"X-Caller", "set">>}}

\* []byte(s)
Bytes(s) ==
  CASE s = "secret" -> <<115, 101, 99, 114, 101, 116>>
    [] s = "Secret" -> <<83, 101, 99, 114, 101, 116>>
    [] s = "abc123" -> <<97, 98, 99, 49, 50, 51>>
    [] s = " abc123" -> <<32, 97, 98, 99, 49, 50, 51>>
    [] s = "abc123 " -> <<97, 98, 99, 49, 50, 51, 32>>
    [] s = "ABC123" -> <<65, 66, 67, 49, 50, 51>>
    [] s = "" -> <<>>

\* lines 215-217, for every app token and challenge above
Digests ==
  {<<k, c, EncodeToString(HmacSha1(Bytes(k), Bytes(c)))>> :
     k \in AppTokens, c \in ChallengeTexts}

Digest(key, msg) == (CHOOSE d \in Digests : d[1] = key /\ d[2] = msg)[3]

\* the digest of a challenge with its surrounding spaces removed
PasswordTrimmed(key, challenge) ==
  Digest(key, IF challenge \in {" abc123", "abc123 "} THEN "abc123" ELSE challenge)

\* the key itself in place of a digest
PasswordClear(key, challenge) == key

\* lines 215-217: hex(HMAC-SHA1(key = app token, message = challenge))
Password(key, challenge) == Digest(key, challenge)

\* the struct type freeboxAuthorize and its zero value
NoIdentity == [AppID |-> "", AppName |-> "", AppVersion |-> "", DeviceName |-> ""]

\* an application name that ignores the environment
AppNameFixed(v) == "freebox-exporter"

\* lines 21-24
AppName(v) == IF v = "" THEN "freebox-exporter" ELSE v

\* lines 26-31
authorizeInit(hostname, appName) ==
  [AppID |-> "com.github.vintzvintz.fbxexport",
   AppName |-> AppName(appName),
   AppVersion |-> "0.0.1",
   DeviceName |-> hostname]

\* an initialiser that goes on after a failed host name lookup
HostnameErrorIgnored == FALSE

\* line 17
HostnameFailed == osEnv.err

\* line 37
getFreeboxAuthorize == authorize

\* lines 67 and 72: the two login URLs; the URL of an API call
getChallengeURL == "login/"
getSessionTokenURL == "login/session/"
ApiURL == "connection/"

\* the concrete sessionInfo, nil when not set
NilSession == [set |-> FALSE, challenge |-> "", sessionToken |-> ""]

\* lines 165-169 on the concrete sessionInfo
loginHeader ==
  IF lg.sessionInfo.set THEN {<<"X-Fbx-App-Auth", lg.sessionInfo.sessionToken>>} ELSE {}

\* login requests decorated like the API requests
loginWithSessionHeader == loginHeader

\* lines 203 and 230: f.client.Get and f.client.Post are called without a
\* callback, so nothing decorates the two login requests
loginCallbacks == {}

NoPost == {}

\* the goroutine before package initialisation
LoginStart ==
  [pc |-> "init", n |-> 0, challenge |-> "", devChallenge |-> "",
   sessionInfo |-> NilSession, lastPost |-> NoPost, ident |-> NoIdentity,
   callbacks |-> {}, retry |-> FALSE]

\* the state of the login data when only the scheduling is followed: the
\* package is initialised and the concrete exchange is not recorded
LoginNotFollowed ==
  /\ osEnv = [hostname |-> "fbx-host", err |-> FALSE, appName |-> ""]
  /\ appToken = "secret"
  /\ authorize = authorizeInit("fbx-host", "")
  /\ lg = [LoginStart EXCEPT !.pc = "off"]
  /\ wire = {}
  /\ logs = {}

\* ---------------------------------------------------- observation helpers
\* a call that has returned is observed in "done" and leaves it at once
NoneDone == \A w \in Workers : pc[w] # "done"
At(p, label) == pc[p] = label /\ NoneDone

EpStart(p, e) == IF e.on /\ gh[p].episode THEN [e EXCEPT !.real = @ + 1] ELSE e
EpCommit(p, e) == IF e.on /\ gh[p].episode THEN [e EXCEPT !.commits = @ + 1] ELSE e
EpReturn(p, e) == IF e.on /\ gh[p].episode THEN [e EXCEPT !.open = @ - 1] ELSE e

\* ------------------------------------------------------------------- Init
InitSession(envs) ==
  /\ now = 0
  /\ env \in envs
  /\ pc = [p \in Procs |-> IF p = Main THEN "new" ELSE "idle"]
  /\ retryConfig = ZeroRetry
  /\ sessionTokenLastUpdate = ZeroTime
  /\ sessionTokenLock = "free"
  /\ sessionInfo = NilInfo
  /\ oldSessionInfo = NilInfo
  /\ infos = <<>>
  /\ issued = 0
  /\ loc = [p \in Procs |-> NoLoc]
  /\ calls = 0
  /\ gh = [p \in Procs |-> NoCall]
  /\ consecFail = 0
  /\ failedNow = {}
  /\ ep = NoEpisode
  /\ refused = FALSE

InitWith(envs) == InitSession(envs) /\ LoginNotFollowed

\* ------------------------------------------------------------------ clock
\* the clock is counted from the constructor's login: the code reads only
\* differences of clock values (lines 140 and 175)
Tick(maxTime) ==
  /\ NoneDone
  /\ pc[Main] \in {"ready", "failed"}
  /\ now < maxTime
  /\ now' = now + 1
  /\ failedNow' = {}
  /\ UNCHANGED <<env, pc, retryConfig, sessionTokenLastUpdate, sessionTokenLock,
                 sessionInfo, oldSessionInfo, infos, issued, loc, calls, gh, consecFail, ep, refused, osEnv, appToken, authorize, lg, wire, logs>>

\* ------------------------------------------------------ NewFreeboxSession
\* lines 67-85: the two GetURL calls and the struct literal
NewFreeboxSession(p) ==
  /\ p = Main
  /\ At(p, "new")
  /\ \E urlOk \in BOOLEAN :
       IF urlOk
       THEN /\ retryConfig' = newRetryConfig
            /\ pc' = [pc EXCEPT ![p] = "refresh"]
            /\ gh' = gh
       ELSE /\ retryConfig' = retryConfig
            /\ pc' = [pc EXCEPT ![p] = "failed"]
            /\ gh' = [gh EXCEPT ![p].result = ErrURL]
  /\ UNCHANGED <<now, env, sessionTokenLastUpdate, sessionTokenLock, sessionInfo,
                 oldSessionInfo, infos, issued, loc, calls, consecFail, failedNow, ep, refused>>
  /\ UNCHANGED lvars

\* a constructor that hands out the session although its refresh failed
AfterRefreshIgnoresError(p, err) ==
  IF p = Main THEN "ready"
  ELSE (IF err = NoErr THEN "reset" ELSE "rf_load_fc")

\* a refresh that records the refresh time although its login failed
AfterRefreshStampsAnyway(p, err) ==
  IF err # NoErr THEN "commit"
  ELSE IF p = Main THEN "ready" ELSE "reset"

\* a refresh that goes on to the session-token exchange after a challenge error
AfterRefreshExchangesAnyway(p, err) ==
  IF err = ErrChallenge THEN "getSessionToken"
  ELSE IF p = Main
  THEN (IF err = NoErr THEN "ready" ELSE "failed")
  ELSE (IF err = NoErr THEN "reset" ELSE "rf_load_fc")

\* where refresh() returns to: lines 86-89 for the constructor, 117-125 for do
AfterRefresh(p, err) ==
  IF p = Main
  THEN (IF err = NoErr THEN "ready" ELSE "failed")
  ELSE (IF err = NoErr THEN "reset" ELSE "rf_load_fc")

\* ---------------------------------------------------------------- refresh
\* a refresh that does not wait for the lock
LockIgnored == TRUE

\* line 172: f.sessionTokenLock.Lock() can return
LockAvailable == sessionTokenLock = "free"

\* a return from refresh that keeps the lock
StillLocked == sessionTokenLock

\* line 173: the deferred f.sessionTokenLock.Unlock()
Unlocked == "free"

\* a refresh without the debounce test
DebouncedNever == FALSE

\* line 175: the debounce test
Debounced == Since(sessionTokenLastUpdate) < DebounceSecs

\* lines 172-178: take the lock, then either skip (and unlock on return) or go on
RefreshEnter(p) ==
  /\ At(p, "refresh")
  /\ LockAvailable
  /\ LET g == [gh[p] EXCEPT !.nRefresh = @ + 1]
     IN  IF Debounced
         THEN /\ pc' = [pc EXCEPT ![p] = AfterRefresh(p, NoErr)]
              /\ gh' = [gh EXCEPT ![p] = g]
              /\ UNCHANGED <<sessionTokenLock, ep, refused>>
         ELSE /\ pc' = [pc EXCEPT ![p] = "getChallenge"]
              /\ gh' = [gh EXCEPT ![p] = [g EXCEPT !.real = TRUE]]
              /\ sessionTokenLock' = p
              /\ ep' = EpStart(p, ep)
              /\ refused' = refused
  /\ UNCHANGED <<now, env, retryConfig, sessionTokenLastUpdate, sessionInfo,
                 oldSessionInfo, infos, issued, loc, calls, consecFail, failedNow>>
  /\ UNCHANGED lvars

\* lines 180-183 and getChallenge (197-209): GET login/, no session header
GetChallenge(p) ==
  /\ At(p, "getChallenge")
  /\ \E ok \in BOOLEAN :
       IF ok
       THEN /\ issued' = issued + 1
            /\ loc' = [loc EXCEPT ![p].challenge = Challenge(issued + 1)]
            /\ pc' = [pc EXCEPT ![p] = "getSessionToken"]
            /\ UNCHANGED <<sessionTokenLock, gh, refused>>
       ELSE /\ pc' = [pc EXCEPT ![p] = AfterRefresh(p, ErrChallenge)]
            /\ refused' = TRUE
            /\ gh' = [gh EXCEPT ![p].refreshErr = ErrChallenge,
                                ![p].result = IF p = Main THEN ErrChallenge ELSE @]
            /\ sessionTokenLock' = Unlocked
            /\ UNCHANGED <<issued, loc>>
  /\ UNCHANGED <<now, env, retryConfig, sessionTokenLastUpdate, sessionInfo,
                 oldSessionInfo, infos, calls, consecFail, failedNow, ep>>
  /\ UNCHANGED lvars

\* lines 184-187 and getSessionToken (211-236): POST login/session/
GetSessionToken(p) ==
  /\ At(p, "getSessionToken")
  /\ \E ok \in BOOLEAN :
       IF ok
       THEN /\ loc' = [loc EXCEPT ![p].sessionToken = SessionToken(loc[p].challenge)]
            /\ pc' = [pc EXCEPT ![p] = "commit"]
            /\ UNCHANGED <<sessionTokenLock, gh, refused>>
       ELSE /\ pc' = [pc EXCEPT ![p] = AfterRefresh(p, ErrSession)]
            /\ refused' = TRUE
            /\ gh' = [gh EXCEPT ![p].refreshErr = ErrSession,
                                ![p].result = IF p = Main THEN ErrSession ELSE @]
            /\ sessionTokenLock' = Unlocked
            /\ loc' = [loc EXCEPT ![p] = NoLoc]
  /\ UNCHANGED <<now, env, retryConfig, sessionTokenLastUpdate, sessionInfo,
                 oldSessionInfo, infos, issued, calls, consecFail, failedNow, ep>>
  /\ UNCHANGED lvars

\* lines 188-189: stamp the refresh time, keep the previous SessionInfo
Commit(p) ==
  /\ At(p, "commit")
  /\ sessionTokenLastUpdate' = now
  /\ oldSessionInfo' = sessionInfo
  /\ ep' = EpCommit(p, ep)
  /\ refused' = FALSE
  /\ pc' = [pc EXCEPT ![p] = "publish"]
  /\ UNCHANGED <<now, env, retryConfig, sessionTokenLock, sessionInfo, infos,
                 issued, loc, calls, gh, consecFail, failedNow>>
  /\ UNCHANGED lvars

\* a login that overwrites the fields of the current SessionInfo
StoreInPlace(challenge, sessionToken) ==
  IF sessionInfo = NilInfo
  THEN [heap |-> Append(infos, [challenge |-> challenge, sessionToken |-> sessionToken]),
        ptr  |-> Len(infos) + 1]
  ELSE [heap |-> [infos EXCEPT ![sessionInfo] =
                    [challenge |-> challenge, sessionToken |-> sessionToken]],
        ptr  |-> sessionInfo]

\* lines 190-193: &sessionInfo{challenge, sessionToken}, a new struct on the
\* heap, and the pointer to it
StoreSessionInfo(challenge, sessionToken) ==
  [heap |-> Append(infos, [challenge |-> challenge, sessionToken |-> sessionToken]),
   ptr  |-> Len(infos) + 1]

\* lines 190-194: store the new SessionInfo, return nil, deferred Unlock
Publish(p) ==
  /\ At(p, "publish")
  /\ infos' = StoreSessionInfo(loc[p].challenge, loc[p].sessionToken).heap
  /\ sessionInfo' = StoreSessionInfo(loc[p].challenge, loc[p].sessionToken).ptr
  /\ sessionTokenLock' = Unlocked
  /\ gh' = [gh EXCEPT ![p].newTok = loc[p].sessionToken]
  /\ loc' = [loc EXCEPT ![p] = NoLoc]
  /\ pc' = [pc EXCEPT ![p] = AfterRefresh(p, NoErr)]
  /\ UNCHANGED <<now, env, retryConfig, sessionTokenLastUpdate, oldSessionInfo,
                 issued, calls, consecFail, failedNow, ep, refused>>
  /\ UNCHANGED lvars

\* ------------------------------------------------------------- Get / Post
\* a switch that sends every error to the refresh-and-retry path
AnyError(err) == TRUE

\* a switch that gives up once a failure has been recorded
AuthErrorUntilFailed(err) == err \in AuthErrors /\ retryConfig.failureCount = 0

\* line 109: the errors that start the refresh-and-retry path
IsAuthError(err) == err \in {ErrAuthRequired, ErrInvalidToken}

\* a retry that goes round again on a second auth error
RetryAgain(out) == IF out \in AuthErrors THEN "shouldWait" ELSE "done"

\* line 125: do returns whatever the retried call returns
AfterRetry(out) == "done"

\* a do that resets the retry state when its first attempt succeeds
ResetOnSuccess(out) == IF out = NoErr THEN "reset" ELSE "done"

\* lines 107, 126-131: the first attempt returned nil or an error that is not
\* one of the two sentinels; do returns it
FirstAttemptReturns(out) == "done"

\* what is remembered of the first attempt's error: the error itself, or
\* that it was one of the two sentinels
ErrClass(err) == IF err \in AuthErrors THEN "auth" ELSE err

\* lines 92-109, 126-131: a worker calls Get or Post; first attempt of the
\* transport call, with the session header, and the switch on its error
DoFirstAttempt(w, maxCalls) ==
  /\ w \in Workers
  /\ pc[Main] = "ready"
  /\ At(w, "idle")
  /\ calls < maxCalls
  /\ calls' = calls + 1
  /\ \E out \in ApiOutcomes :
       LET g == [NoCall EXCEPT !.nAction = 1, !.hdr1 = addHeader,
                               !.firstErr = ErrClass(out),
                               !.hdrCommitted = (addHeader # NoTok /\ addHeader = CommittedToken)]
           all == (failedNow \cup {w}) = Workers
       IN  IF out # NoErr /\ IsAuthError(out)
           THEN /\ pc' = [pc EXCEPT ![w] = "shouldWait"]
                /\ failedNow' = failedNow \cup {w}
                /\ gh' = [p \in Procs |->
                            IF p = w THEN [g EXCEPT !.episode = all]
                            ELSE IF p \in Workers /\ all THEN [gh[p] EXCEPT !.episode = TRUE]
                            ELSE gh[p]]
                /\ ep' = IF all
                         THEN [on |-> TRUE, at |-> now, open |-> Cardinality(Workers),
                               real |-> Cardinality({v \in Workers \ {w} : gh[v].real}),
                               commits |-> Cardinality({v \in Workers \ {w} : gh[v].newTok # NoTok
                                                           \/ pc[v] = "publish"})]
                         ELSE ep
                /\ refused' = refused
           ELSE /\ pc' = [pc EXCEPT ![w] = FirstAttemptReturns(out)]
                /\ gh' = [gh EXCEPT ![w] = [g EXCEPT !.result = out]]
                /\ UNCHANGED <<failedNow, ep, refused>>
  /\ UNCHANGED <<now, env, retryConfig, sessionTokenLastUpdate, sessionTokenLock,
                 sessionInfo, oldSessionInfo, infos, issued, loc, consecFail>>
  /\ UNCHANGED lvars

\* lines 111, 135-137: shouldWaitBeforeRetry, the failure-count test
ShouldWait135(w) ==
  /\ At(w, "shouldWait")
  /\ pc' = [pc EXCEPT ![w] = IF retryConfig.failureCount = 0 THEN "refresh"
                                                              ELSE "shouldWait140"]
  /\ UNCHANGED <<now, env, retryConfig, sessionTokenLastUpdate, sessionTokenLock,
                 sessionInfo, oldSessionInfo, infos, issued, loc, calls, gh, consecFail,
                 failedNow, ep, refused>>
  /\ UNCHANGED lvars

\* a window test that never asks for a wait
WindowIgnored == FALSE

\* line 140: the backoff window test
InBackoffWindow == Since(retryConfig.lastFailure) < retryConfig.currentDelay * 2

ShouldWait140(w) ==
  /\ At(w, "shouldWait140")
  /\ pc' = [pc EXCEPT ![w] = IF InBackoffWindow THEN "sleep" ELSE "refresh"]
  /\ UNCHANGED <<now, env, retryConfig, sessionTokenLastUpdate, sessionTokenLock,
                 sessionInfo, oldSessionInfo, infos, issued, loc, calls, gh, consecFail,
                 failedNow, ep, refused>>
  /\ UNCHANGED lvars

\* lines 112-114: time.Sleep(f.retryConfig.currentDelay) starts
Sleep(w) ==
  /\ At(w, "sleep")
  /\ loc' = [loc EXCEPT ![w].wakeAt = now + retryConfig.currentDelay]
  /\ gh' = [gh EXCEPT ![w].nSleep = @ + 1]
  /\ pc' = [pc EXCEPT ![w] = "sleeping"]
  /\ UNCHANGED <<now, env, retryConfig, sessionTokenLastUpdate, sessionTokenLock,
                 sessionInfo, oldSessionInfo, infos, issued, calls, consecFail,
                 failedNow, ep, refused>>
  /\ UNCHANGED lvars

\* line 114: time.Sleep returns once the delay has elapsed
Wake(w) ==
  /\ At(w, "sleeping")
  /\ now >= loc[w].wakeAt
  /\ loc' = [loc EXCEPT ![w].wakeAt = 0]
  /\ pc' = [pc EXCEPT ![w] = "refresh"]
  /\ UNCHANGED <<now, env, retryConfig, sessionTokenLastUpdate, sessionTokenLock,
                 sessionInfo, oldSessionInfo, infos, issued, calls, gh, consecFail,
                 failedNow, ep, refused>>
  /\ UNCHANGED lvars

\* ---------------------------------------------------------- recordFailure
\* line 144, f.retryConfig.failureCount++ : the load
RecordFailureLoadCount(w) ==
  /\ At(w, "rf_load_fc")
  /\ loc' = [loc EXCEPT ![w].tmp = retryConfig.failureCount]
  /\ pc' = [pc EXCEPT ![w] = "rf_store_fc"]
  /\ UNCHANGED <<now, env, retryConfig, sessionTokenLastUpdate, sessionTokenLock,
                 sessionInfo, oldSessionInfo, infos, issued, calls, gh, consecFail,
                 failedNow, ep, refused>>
  /\ UNCHANGED lvars

\* line 144: the store
RecordFailureStoreCount(w) ==
  /\ At(w, "rf_store_fc")
  /\ retryConfig' = [retryConfig EXCEPT !.failureCount = loc[w].tmp + 1]
  /\ loc' = [loc EXCEPT ![w].tmp = 0]
  /\ pc' = [pc EXCEPT ![w] = "rf145"]
  /\ UNCHANGED <<now, env, sessionTokenLastUpdate, sessionTokenLock, sessionInfo,
                 oldSessionInfo, infos, issued, calls, gh, consecFail, failedNow, ep, refused>>
  /\ UNCHANGED lvars

\* line 145: f.retryConfig.lastFailure = time.Now()
RecordFailureStamp(w) ==
  /\ At(w, "rf145")
  /\ retryConfig' = [retryConfig EXCEPT !.lastFailure = now]
  /\ pc' = [pc EXCEPT ![w] = "rf_load_cd"]
  /\ UNCHANGED <<now, env, sessionTokenLastUpdate, sessionTokenLock, sessionInfo,
                 oldSessionInfo, infos, issued, loc, calls, gh, consecFail, failedNow, ep, refused>>
  /\ UNCHANGED lvars

\* line 148, f.retryConfig.currentDelay *= 2 : the load
RecordFailureLoadDelay(w) ==
  /\ At(w, "rf_load_cd")
  /\ loc' = [loc EXCEPT ![w].tmp = retryConfig.currentDelay]
  /\ pc' = [pc EXCEPT ![w] = "rf_store_cd"]
  /\ UNCHANGED <<now, env, retryConfig, sessionTokenLastUpdate, sessionTokenLock,
                 sessionInfo, oldSessionInfo, infos, issued, calls, gh, consecFail,
                 failedNow, ep, refused>>
  /\ UNCHANGED lvars

\* line 148: the doubling
Doubled(d) == d * 2

\* line 148: the store
RecordFailureStoreDelay(w) ==
  /\ At(w, "rf_store_cd")
  /\ retryConfig' = [retryConfig EXCEPT !.currentDelay = Doubled(loc[w].tmp)]
  /\ loc' = [loc EXCEPT ![w].tmp = 0]
  /\ pc' = [pc EXCEPT ![w] = "rf149"]
  /\ UNCHANGED <<now, env, sessionTokenLastUpdate, sessionTokenLock, sessionInfo,
                 oldSessionInfo, infos, issued, calls, gh, consecFail, failedNow, ep, refused>>
  /\ UNCHANGED lvars

\* a recordFailure without the cap
Uncapped(d, maxDelay) == d

\* lines 149-151: the cap
Capped(d, maxDelay) == IF d > maxDelay THEN maxDelay ELSE d

\* lines 149-155 and 120: cap the delay, return the refresh error from do
RecordFailureCap(w) ==
  /\ At(w, "rf149")
  /\ retryConfig' = [retryConfig EXCEPT
                       !.currentDelay = Capped(retryConfig.currentDelay, retryConfig.maxDelay)]
  /\ gh' = [gh EXCEPT ![w].nRecord = @ + 1, ![w].result = gh[w].refreshErr]
  /\ consecFail' = consecFail + 1
  /\ pc' = [pc EXCEPT ![w] = "done"]
  /\ UNCHANGED <<now, env, sessionTokenLastUpdate, sessionTokenLock, sessionInfo,
                 oldSessionInfo, infos, issued, loc, calls, failedNow, ep, refused>>
  /\ UNCHANGED lvars

\* -------------------------------------------------------- resetRetryState
\* lines 124, 158: the failure-count test
Reset158(w) ==
  /\ At(w, "reset")
  /\ pc' = [pc EXCEPT ![w] = IF retryConfig.failureCount > 0 THEN "reset160" ELSE "action2"]
  /\ gh' = [gh EXCEPT ![w].nReset = @ + 1]
  /\ consecFail' = 0
  /\ UNCHANGED <<now, env, retryConfig, sessionTokenLastUpdate, sessionTokenLock,
                 sessionInfo, oldSessionInfo, infos, issued, loc, calls, failedNow, ep, refused>>
  /\ UNCHANGED lvars

\* line 160: f.retryConfig.failureCount = 0
Reset160(w) ==
  /\ At(w, "reset160")
  /\ retryConfig' = [retryConfig EXCEPT !.failureCount = 0]
  /\ pc' = [pc EXCEPT ![w] = "reset161"]
  /\ UNCHANGED <<now, env, sessionTokenLastUpdate, sessionTokenLock, sessionInfo,
                 oldSessionInfo, infos, issued, loc, calls, gh, consecFail, failedNow, ep, refused>>
  /\ UNCHANGED lvars

\* line 161: f.retryConfig.currentDelay = f.retryConfig.minDelay
Reset161(w) ==
  /\ At(w, "reset161")
  /\ retryConfig' = [retryConfig EXCEPT !.currentDelay = retryConfig.minDelay]
  /\ pc' = [pc EXCEPT ![w] = "action2"]
  /\ UNCHANGED <<now, env, sessionTokenLastUpdate, sessionTokenLock, sessionInfo,
                 oldSessionInfo, infos, issued, loc, calls, gh, consecFail, failedNow, ep, refused>>
  /\ UNCHANGED lvars

\* line 125: return action(), the single retry
DoRetry(w) ==
  /\ At(w, "action2")
  /\ \E out \in ApiOutcomes :
       /\ gh' = [gh EXCEPT ![w].nAction = @ + 1, ![w].hdr2 = addHeader,
                           ![w].hdrCommitted = (@ /\ addHeader # NoTok
                                                  /\ addHeader = CommittedToken),
                           ![w].result = out]
       /\ pc' = [pc EXCEPT ![w] = AfterRetry(out)]
  /\ UNCHANGED <<now, env, retryConfig, sessionTokenLastUpdate, sessionTokenLock,
                 sessionInfo, oldSessionInfo, infos, issued, loc, calls, consecFail,
                 failedNow, ep, refused>>
  /\ UNCHANGED lvars

\* do has returned to its caller; the record of the call is dropped
Return(w) ==
  /\ pc[w] = "done"
  /\ pc' = [pc EXCEPT ![w] = "idle"]
  /\ gh' = [gh EXCEPT ![w] = NoCall]
  /\ failedNow' = failedNow \ {w}
  /\ ep' = EpReturn(w, ep)
  /\ refused' = refused
  /\ UNCHANGED <<now, env, retryConfig, sessionTokenLastUpdate, sessionTokenLock,
                 sessionInfo, oldSessionInfo, infos, issued, loc, calls, consecFail>>
  /\ UNCHANGED lvars

\* ---------------------------------------------------------- specification
Step(p, maxCalls) ==
  \/ NewFreeboxSession(p)
  \/ RefreshEnter(p)
  \/ GetChallenge(p)
  \/ GetSessionToken(p)
  \/ Commit(p)
  \/ Publish(p)
  \/ DoFirstAttempt(p, maxCalls)
  \/ ShouldWait135(p)
  \/ ShouldWait140(p)
  \/ Sleep(p)
  \/ Wake(p)
  \/ RecordFailureLoadCount(p)
  \/ RecordFailureStoreCount(p)
  \/ RecordFailureStamp(p)
  \/ RecordFailureLoadDelay(p)
  \/ RecordFailureStoreDelay(p)
  \/ RecordFailureCap(p)
  \/ Reset158(p)
  \/ Reset160(p)
  \/ Reset161(p)
  \/ DoRetry(p)
  \/ Return(p)

\* ------------------------------------------------- the login exchange
\* package initialisation: the initialiser of authorize, lines 15-32
PackageInit ==
  /\ lg.pc = "init"
  /\ IF HostnameFailed
       THEN /\ lg' = [lg EXCEPT !.pc = "panicked"]
            /\ UNCHANGED authorize
       ELSE /\ authorize' = authorizeInit(osEnv.hostname, osEnv.appName)
            /\ lg' = [lg EXCEPT !.pc = "main"]
  /\ UNCHANGED <<mvars, osEnv, appToken, wire, logs>>

\* lines 78-86: the constructor stores the app token and calls refresh
StoreAppToken ==
  /\ lg.pc = "main"
  /\ \E tok \in AppTokens : appToken' = tok
  /\ lg' = [lg EXCEPT !.pc = "getChallenge", !.n = 1]
  /\ UNCHANGED <<mvars, osEnv, authorize, wire, logs>>

\* where the goroutine goes when refresh returns an error: the constructor
\* returns no session (line 87), do returns the error (line 120)
AfterLoginError == IF lg.n = 1 THEN "exit" ELSE "idle"

\* lines 197-209, called at line 180
getChallenge ==
  /\ lg.pc = "getChallenge"
  /\ wire' = wire \cup {[method |-> "GET", url |-> getChallengeURL,
                         header |-> loginCallbacks, body |-> {}]}
  /\ \E ok \in BOOLEAN, text \in ChallengeTexts :
       IF ok
         THEN /\ logs' = logs \cup {<<"GET challenge:", getChallengeURL>>,
                                    <<"Challenge:", text>>}
              /\ lg' = [lg EXCEPT !.pc = "getSessionToken", !.challenge = text,
                                  !.devChallenge = text]
         ELSE /\ logs' = logs \cup {<<"GET challenge:", getChallengeURL>>}
              /\ lg' = [lg EXCEPT !.pc = AfterLoginError, !.retry = FALSE]
  /\ UNCHANGED <<mvars, osEnv, appToken, authorize>>

\* lines 211-236, called at line 184, and the commit of lines 188-193
getSessionToken ==
  /\ lg.pc = "getSessionToken"
  /\ LET freeboxAuthorize == getFreeboxAuthorize
         password == Password(appToken, lg.challenge)
         reqStruct == {<<"app_id", freeboxAuthorize.AppID>>, <<"password", password>>}
     IN  /\ wire' = wire \cup {[method |-> "POST", url |-> getSessionTokenURL,
                                header |-> loginCallbacks, body |-> reqStruct]}
         /\ \E ok \in BOOLEAN, text \in SessionTexts :
              IF ok
                THEN /\ logs' = logs \cup {<<"GET SessionToken:", getSessionTokenURL>>,
                                           <<"SessionToken:", text>>}
                     /\ lg' = [lg EXCEPT !.pc = "idle",
                                         !.sessionInfo = [set |-> TRUE,
                                                          challenge |-> lg.challenge,
                                                          sessionToken |-> text],
                                         !.lastPost = reqStruct,
                                         !.ident = freeboxAuthorize]
                ELSE /\ logs' = logs \cup {<<"GET SessionToken:", getSessionTokenURL>>}
                     /\ lg' = [lg EXCEPT !.pc = AfterLoginError,
                                         !.retry = FALSE,
                                         !.lastPost = reqStruct,
                                         !.ident = freeboxAuthorize]
  /\ UNCHANGED <<mvars, osEnv, appToken, authorize>>

\* a Get that also hands the caller's callbacks to the transport
passCallerCallbacks(callbacks) == loginHeader \cup callbacks

\* lines 93-95 (and 100-102 for Post): the action closure hands f.addHeader,
\* and nothing else, to the transport; the headers of the request are those
\* the decorators handed over set
actionCallbacks(callbacks) == loginHeader

\* lines 92-97 and 106-125: an API call with the session header.  On its
\* first attempt the caller supplies its callbacks and an authentication
\* error starts the next login; after that login the same action is run
\* once more (line 125) and its result is returned
ApiGet ==
  /\ lg.pc = "idle"
  /\ \E callbacks \in (IF lg.retry THEN {lg.callbacks} ELSE CallerCallbacks),
        err \in {NoErr, ErrAuthRequired, ErrInvalidToken, ErrOther} :
       /\ wire' = wire \cup {[method |-> "GET", url |-> ApiURL,
                              header |-> actionCallbacks(callbacks), body |-> {}]}
       /\ IF IsAuthError(err) /\ lg.n < MaxLogins /\ ~ lg.retry
            THEN lg' = [lg EXCEPT !.pc = "getChallenge", !.n = @ + 1,
                                  !.callbacks = callbacks, !.retry = TRUE]
            ELSE lg' = [lg EXCEPT !.callbacks = callbacks, !.retry = FALSE]
  /\ UNCHANGED <<mvars, osEnv, appToken, authorize, logs>>

Init == InitWith(ShortEnvs)

Next == Tick(MaxTime) \/ \E p \in Procs : Step(p, MaxCalls)

Spec == Init /\ [][Next]_vars

\* the same program used by one goroutine at a time (calls never overlap),
\* started with any of the environments
InitSeq == InitWith(AllEnvs)

NextSeq == Tick(MaxTimeSeq) \/ \E p \in {Main, "w1"} : Step(p, MaxCallsSeq)

SpecSeq == InitSeq /\ [][NextSeq]_vars

\* the concurrent program with the maximum delay set below the minimum delay
InitLowMax == InitWith(LowMaxEnvs)

NextLowMax == Tick(MaxTimeLowMax) \/ \E p \in Procs : Step(p, MaxCallsLowMax)

SpecLowMax == InitLowMax /\ [][NextLowMax]_vars

\* the concurrent program under fair scheduling.  Beyond the clock horizon
\* time goes on only as long as a caller is in time.Sleep (line 114)
TickSleeping ==
  /\ NoneDone
  /\ now >= MaxTime
  /\ \E w \in Workers : pc[w] = "sleeping" /\ now < loc[w].wakeAt
  /\ now' = now + 1
  /\ failedNow' = {}
  /\ UNCHANGED <<env, pc, retryConfig, sessionTokenLastUpdate, sessionTokenLock,
                 sessionInfo, oldSessionInfo, infos, issued, loc, calls, gh, consecFail,
                 ep, refused, osEnv, appToken, authorize, lg, wire, logs>>

NextLive == Next \/ TickSleeping

\* every goroutine that can take a step of the code takes it, time passes,
\* and every transport call returns; nobody has to start a new Get/Post
Progress(p) == Step(p, 0)

SpecLive ==
  /\ Init /\ [][NextLive]_vars
  /\ WF_vars(Tick(MaxTime)) /\ WF_vars(TickSleeping)
  /\ \A p \in Procs : WF_vars(Progress(p))

\* the concurrent program with a third call, so that a caller can come back
\* while the two calls before it are still under way
NextRace == Tick(MaxTimeRace) \/ \E p \in Procs : Step(p, MaxCallsRace)

SpecRace == Init /\ [][NextRace]_vars

\* the login exchange on concrete data, from package initialisation on.
\* The scheduling variables stay as they are at construction
InitLogin ==
  /\ InitSession(ShortEnvs)
  /\ osEnv \in {[hostname |-> h, err |-> FALSE, appName |-> a] :
                  h \in HostNames, a \in AppNameValues}
             \cup {[hostname |-> "", err |-> TRUE, appName |-> a] : a \in AppNameValues}
  /\ appToken = ""
  /\ authorize = NoIdentity
  /\ lg = LoginStart
  /\ wire = {}
  /\ logs = {}

NextLogin == PackageInit \/ StoreAppToken \/ getChallenge \/ getSessionToken \/ ApiGet

SpecLogin == InitLogin /\ [][NextLogin]_vars

\* ================================================================= claims
\* some goroutine is inside recordFailure (lines 143-155)
MidRecord ==
  \E w \in Workers : pc[w] \in {"rf_load_fc", "rf_store_fc", "rf145", "rf_load_cd",
                                "rf_store_cd", "rf149"}

\* C1 as stated: when all the workers got their auth error at the same
\* instant and all their calls have returned, exactly one real login exchange
\* was performed for them.
C1_Original == (ep.on /\ ep.open = 0) => ep.real = 1

\* C1, amended: when all the workers got their auth error at the same instant,
\* then within 5 seconds of that instant at most one login exchange of theirs
\* is committed, and once one is committed none of them starts another one
\* (the steps of one such group of calls: none of the calls is a new one).
C1_OneCommittedExchange ==
  [][(ep.on /\ ep'.on /\ ep'.at = ep.at /\ ep'.open <= ep.open
        /\ now' < ep.at + DebounceSecs)
       => /\ ep'.commits <= 1
          /\ (ep.commits = 1 => ep'.real = ep.real)]_vars

C1_Witness ==
  /\ ep.on /\ ep.open = 0 /\ ep.real = 1 /\ ep.commits = 1
  /\ now < ep.at + DebounceSecs

\* C2: a Get/Post call invokes the transport call at most twice and refresh
\* at most once (and sleeps at most once); after the second transport call it
\* has returned, with that call's outcome, having refreshed once and recorded
\* no failure.
C2_AtMostTwoAttempts ==
  \A w \in Workers :
    /\ gh[w].nAction <= 2 /\ gh[w].nRefresh <= 1 /\ gh[w].nSleep <= 1
    /\ gh[w].nAction = 2 =>
         /\ pc[w] = "done"
         /\ gh[w].result \in ApiOutcomes
         /\ gh[w].nRefresh = 1 /\ gh[w].nRecord = 0

C2_Witness ==
  \E w \in Workers :
    /\ pc[w] = "done" /\ gh[w].nAction = 2 /\ gh[w].result = ErrInvalidToken
    /\ gh[w].nRefresh = 1 /\ gh[w].newTok # NoTok

\* C3: a Get/Post whose first attempt fails with an error other than the two
\* sentinels returns that error in the same step: no refresh, no sleep, and
\* the retry state, the SessionInfo slots, the last-refresh timestamp, the
\* lock and the device are left as they were.
C3_NonAuthErrorReturned ==
  [][\A w \in Workers :
       (gh[w].nAction = 0 /\ gh'[w].nAction = 1 /\ gh'[w].firstErr = ErrOther)
         => /\ pc'[w] = "done"
            /\ gh'[w].result = ErrOther
            /\ gh'[w].nRefresh = 0 /\ gh'[w].nSleep = 0 /\ gh'[w].nRecord = 0
            /\ UNCHANGED <<shared, sessionTokenLock, issued>>]_vars

C3_Witness ==
  \E w \in Workers :
    /\ pc[w] = "done" /\ gh[w].firstErr = ErrOther /\ gh[w].result = ErrOther
    /\ gh[w].nAction = 1

\* C4 as stated: when the refresh of a Get/Post fails, the failure count
\* increases by exactly 1 when the call records its failure, and the call
\* returns the refresh error without a second transport call.
C4_OneFailureRecorded ==
  [][\A w \in Workers :
       /\ (pc[w] = "rf_store_fc" /\ pc'[w] = "rf145")
            => retryConfig'.failureCount = retryConfig.failureCount + 1
       /\ (pc[w] = "rf149" /\ pc'[w] = "done")
            => /\ gh'[w].result = gh[w].refreshErr
               /\ gh'[w].result \in {ErrChallenge, ErrSession}
               /\ gh'[w].nAction = 1 /\ gh'[w].nRecord = 1]_vars

\* C5: when NewFreeboxSession has returned a session manager it has made
\* exactly one refresh, a real one, which obtained the device's first token;
\* until then no worker holds the manager, and a failed construction leaves
\* no session behind and reports an error.
C5_ConstructorLogsInOnce ==
  /\ pc[Main] = "ready" =>
       /\ gh[Main].nRefresh = 1 /\ gh[Main].real
       /\ gh[Main].newTok = SessionToken(Challenge(1))
       /\ sessionInfo # NilInfo
       /\ calls = 0 => (issued = 1 /\ Len(infos) = 1)
  /\ pc[Main] # "ready" => (calls = 0 /\ \A w \in Workers : pc[w] = "idle")
  /\ pc[Main] = "failed" => (sessionInfo = NilInfo /\ gh[Main].result # NoErr)

C5_Witness ==
  /\ pc[Main] = "ready" /\ gh[Main].newTok # NoTok /\ calls > 0
  /\ \E w \in Workers : pc[w] # "idle"


\* C6 as stated: of the refresh() calls that the workers make within 5
\* seconds of one instant, at most one performs a real login exchange.
C6_Original == (ep.on /\ now < ep.at + DebounceSecs) => ep.real <= 1

\* C6, amended: a refresh() call made less than 5 seconds after the last
\* successful real refresh is a no-op: it returns success, contacts no device
\* and changes nothing.
C6_DebouncedIsNoOp ==
  [][\A p \in Procs :
       (/\ pc[p] = "refresh" /\ pc'[p] # "refresh"
        /\ sessionTokenLastUpdate # ZeroTime
        /\ now - sessionTokenLastUpdate < DebounceSecs)
         => /\ pc'[p] = AfterRefresh(p, NoErr)
            /\ gh'[p].nRefresh = gh[p].nRefresh + 1
            /\ ~gh'[p].real /\ gh'[p].refreshErr = NoErr
            /\ UNCHANGED <<shared, sessionTokenLock, issued>>]_vars

C6_Witness ==
  \E w \in Workers :
    /\ pc[w] = "reset" /\ gh[w].nRefresh = 1 /\ ~gh[w].real
    /\ sessionTokenLastUpdate # ZeroTime
    /\ now - sessionTokenLastUpdate < DebounceSecs

C8_ResetBeforeRetry ==
  \A w \in Workers :
    pc[w] = "action2"
      => (retryConfig.failureCount = 0
          /\ retryConfig.currentDelay = retryConfig.minDelay)

\* C9: every transport call made by Get/Post carries a session header, whose
\* value is the token of the SessionInfo committed last at that time; the
\* retry that follows a real successful refresh of the same call carries a
\* token that is not the one of the first attempt and is at least as recent
\* as the one the refresh obtained.
C9_HeaderIsCommittedToken ==
  \A w \in Workers :
    /\ gh[w].nAction >= 1 => (gh[w].hdrCommitted /\ gh[w].hdr1 # NoTok)
    /\ gh[w].nAction = 2 => gh[w].hdr2 # NoTok
    /\ (gh[w].nAction = 2 /\ gh[w].newTok # NoTok)
         => (gh[w].hdr2 # gh[w].hdr1 /\ gh[w].hdr2[2] >= gh[w].newTok[2])

C9_Witness ==
  \E w \in Workers :
    /\ pc[w] = "done" /\ gh[w].nAction = 2 /\ gh[w].newTok # NoTok
    /\ gh[w].hdr2 = gh[w].newTok /\ gh[w].hdr1 # gh[w].hdr2

\* C10 as stated: once a failure has been recorded, a Get/Post starts a real
\* login exchange inside the backoff window (less than 2 x currentDelay after
\* the last failure) only if it has slept first.
C10_NoLoginInsideWindow ==
  [][\A w \in Workers :
       (/\ pc[w] = "refresh" /\ pc'[w] = "getChallenge"
        /\ retryConfig.failureCount > 0 /\ ~MidRecord
        /\ InBackoffWindow)
         => gh[w].nSleep >= 1]_vars

\* C11: the session manager never gives up.  Whatever failures have been
\* recorded, an auth error of a first attempt starts the refresh path; after
\* a refused login every refresh() is a real login attempt until one
\* succeeds; and under fair scheduling every call that hit an auth error
\* reaches refresh() and returns, either with the error of its refused login
\* or after retrying the original call, with the token it obtained (or a
\* later one) when its login was a real one.
C11_NeverGivesUp ==
  /\ [][\A w \in Workers :
          (gh[w].nAction = 0 /\ gh'[w].nAction = 1 /\ gh'[w].firstErr = "auth")
            => pc'[w] = "shouldWait"]_vars
  /\ [][\A p \in Procs :
          (pc[p] = "refresh" /\ pc'[p] # "refresh" /\ refused)
            => pc'[p] = "getChallenge"]_vars
  /\ \A w \in Workers :
       (pc[w] = "shouldWait")
         ~> (/\ pc[w] = "done" /\ gh[w].nRefresh = 1
             /\ \/ (gh[w].refreshErr # NoErr /\ gh[w].nRecord = 1 /\ gh[w].nAction = 1)
                \/ (/\ gh[w].refreshErr = NoErr /\ gh[w].nAction = 2
                    /\ gh[w].real => (/\ gh[w].newTok # NoTok
                                      /\ gh[w].hdr2[2] >= gh[w].newTok[2])))

C11_Witness ==
  \E w \in Workers :
    /\ pc[w] = "done" /\ gh[w].nAction = 2 /\ gh[w].nSleep = 1
    /\ gh[w].real /\ gh[w].newTok # NoTok /\ gh[w].hdr2 = gh[w].newTok
    /\ retryConfig.lastFailure # ZeroTime

\* C12 as stated: the delay a caller sleeps for never exceeds maxDelay.
C12_SleepWithinMaxDelay ==
  [][\A w \in Workers :
       (pc[w] = "sleep" /\ pc'[w] = "sleeping")
         => loc'[w].wakeAt - now <= retryConfig.maxDelay]_vars

\* C15: whatever the two override strings, building the retry state never
\* fails; an unset, empty or unparsable minimum (maximum) override gives 5 s
\* (60 s) and a parsable one is used as given, for the life of the session
\* manager; the retry state starts with currentDelay = minDelay, no failure
\* counted and no failure time.
C15_BackoffConfiguration ==
  (pc[Main] # "new" /\ gh[Main].result # ErrURL)
    => /\ retryConfig.minDelay = (IF env.min = "1s" THEN 1 ELSE 5)
       /\ retryConfig.maxDelay = (IF env.max = "3s" THEN 3 ELSE 60)
       /\ pc[Main] = "refresh"
            => /\ retryConfig.currentDelay = retryConfig.minDelay
               /\ retryConfig.failureCount = 0
               /\ retryConfig.lastFailure = ZeroTime

C15_Witness ==
  /\ pc[Main] = "refresh" /\ env.min = "bogus" /\ env.max = "bogus"
  /\ retryConfig.currentDelay = 5 /\ retryConfig.maxDelay = 60

\* C13: the app token never leaves the process in clear form.  No request
\* handed to the transport carries it as its URL, as a header value or as a
\* body value, and no log line has it as a part; a POST goes to the session
\* URL only, without header, with exactly the fields app_id and password; and
\* everything sent or logged, the password field apart, is a value that is
\* built without the app token: a URL, the application id, or a text the
\* device returned.  (The password is 40 hexadecimal digits, so the app
\* tokens used here cannot be a part of it either.)
C13_AppTokenNeverInClear ==
  LET deviceTexts == ChallengeTexts \cup SessionTexts
      urls == {getChallengeURL, getSessionTokenURL, ApiURL}
  IN  /\ \A r \in wire :
           /\ r.url \in urls /\ r.url # appToken
           /\ \A h \in r.header : h[1] = "X-Fbx-App-Auth" /\ h[2] \in SessionTexts
                                    /\ h[2] # appToken
           /\ \A b \in r.body : b[2] # appToken
           /\ r.method = "GET" => r.body = {}
           /\ r.method = "POST" =>
                /\ r.url = getSessionTokenURL /\ r.header = {}
                /\ {b[1] : b \in r.body} = {"app_id", "password"}
                /\ Cardinality(r.body) = 2
                /\ \A b \in r.body :
                     b[1] = "app_id" => b[2] = "com.github.vintzvintz.fbxexport"
      /\ \A l \in logs :
           /\ l[1] \in {"GET challenge:", "Challenge:", "GET SessionToken:", "SessionToken:"}
           /\ l[2] \in urls \cup deviceTexts
           /\ l[2] # appToken

\* two logins done, the second one after an API call that carried the
\* session header
C13_Witness ==
  /\ appToken = "secret"
  /\ lg.n = 2 /\ lg.pc = "idle"
  /\ \E r \in wire : r.method = "POST" /\ <<"password", Password("secret", "abc123")>> \in r.body
  /\ \E r \in wire : r.url = ApiURL /\ r.header # {}
  /\ \E l \in logs : l[1] = "SessionToken:"

\* C14: the password getSessionToken posts is the hexadecimal HMAC-SHA1 of
\* the challenge the device returned to the getChallenge of the same refresh,
\* byte for byte, keyed by the app token.  The expected digests are the
\* published test vectors of HMAC-SHA1 for these keys and messages; for the
\* challenge "abc123" and the app token "secret" it is 8657345c...a86c2b69.
C14_PasswordIsHmacOfChallenge ==
  [][(lg.pc = "getSessionToken" /\ lg'.pc # "getSessionToken") =>
       LET expected ==
             CASE appToken = "secret" /\ lg.devChallenge = "abc123" ->
                    "8657345ce1d0a7304b31540a34ec4355a86c2b69"
               [] appToken = "secret" /\ lg.devChallenge = " abc123" ->
                    "6eb09bae7a6c0fd1f0ad23d2c89b58da7d80a6c7"
               [] appToken = "secret" /\ lg.devChallenge = "abc123 " ->
                    "79630371c3c79df1ee3d9c7c64fbcf488e8e04b1"
               [] appToken = "secret" /\ lg.devChallenge = "ABC123" ->
                    "8e12030c5b0e54235f15824fa75b71b91b83f082"
               [] appToken = "Secret" /\ lg.devChallenge = "abc123" ->
                    "6a6697ffa76032fa6f7abd162e966d68ea2adf54"
               [] appToken = "Secret" /\ lg.devChallenge = " abc123" ->
                    "e6b34499ba2b648c1436affce28cb410f036425f"
               [] appToken = "Secret" /\ lg.devChallenge = "abc123 " ->
                    "f4d190e5dd67188b5da34ec7c9630a4341c93f99"
               [] appToken = "Secret" /\ lg.devChallenge = "ABC123" ->
                    "9b56bb9a0193b07edb2fe7dd7ff85439c2ea82f9"
       IN  /\ <<"password", expected>> \in lg'.lastPost
           /\ [method |-> "POST", url |-> getSessionTokenURL, header |-> {},
               body |-> lg'.lastPost] \in wire'
           /\ \A b \in lg'.lastPost : b[1] = "password" => b[2] = expected]_vars

\* the known vector has been posted, and in another login of the same
\* process the digest of a challenge that starts with a space
C14_Witness ==
  /\ appToken = "secret"
  /\ lg.n = 2 /\ lg.devChallenge = " abc123"
  /\ <<"password", "6eb09bae7a6c0fd1f0ad23d2c89b58da7d80a6c7">> \in lg.lastPost
  /\ \E r \in wire : <<"password", "8657345ce1d0a7304b31540a34ec4355a86c2b69">> \in r.body

\* C16: the application identity is computed once.  Once the package is
\* initialised, authorize is {app_id, app_name, app_version, device_name}
\* with the fixed id and version, the host name, and as app_name the
\* environment override when it is not empty and "freebox-exporter"
\* otherwise; no step changes it; and what getFreeboxAuthorize yields, at a
\* login or at any other moment, is that same value.
C16_IdentityComputedOnce ==
  [][LET expected == [AppID |-> "com.github.vintzvintz.fbxexport",
                      AppName |-> IF osEnv.appName = "" THEN "freebox-exporter"
                                  ELSE osEnv.appName,
                      AppVersion |-> "0.0.1",
                      DeviceName |-> osEnv.hostname]
     IN  /\ lg'.pc \notin {"init", "panicked"} =>
               /\ authorize' = expected
               /\ getFreeboxAuthorize' = expected
               /\ lg'.ident \in {NoIdentity, expected}
               /\ lg'.lastPost # NoPost => lg'.ident = expected
         /\ lg.pc # "init" => authorize' = authorize /\ osEnv' = osEnv]_vars

\* the identity with the overridden name has been read by two logins
C16_Witness ==
  /\ osEnv.appName = "my-exporter"
  /\ lg.n = 2 /\ lg.pc = "idle" /\ lg.sessionInfo.set
  /\ lg.ident = authorize
  /\ authorize.AppName = "my-exporter"
  /\ \E r \in wire : r.method = "POST"

\* C17: when the host name lookup fails, package initialisation panics:
\* authorize never takes a value, the constructor is never reached, and
\* nothing is ever sent or logged.
C17_NoIdentityWithoutHostname ==
  osEnv.err =>
    /\ authorize = NoIdentity
    /\ lg.pc \in {"init", "panicked"}
    /\ lg.n = 0 /\ appToken = ""
    /\ lg.ident = NoIdentity /\ lg.lastPost = NoPost
    /\ wire = {} /\ logs = {}

\* the initialiser has panicked
C17_Witness == osEnv.err /\ lg.pc = "panicked" /\ authorize = NoIdentity

\* C18: mutual exclusion of refresh.  At most one goroutine is between the
\* start of getChallenge and the commit of the new sessionInfo, and it holds
\* the lock; the challenge it got is the last one the device issued, so no
\* other refresh has put its challenge step between this refresh's challenge
\* and token steps; and the committed sessionInfos carry the token obtained
\* for their own challenge, in the order in which the challenges were issued.
C18_RefreshMutualExclusion ==
  LET inRefresh == {p \in Procs : pc[p] \in {"getChallenge", "getSessionToken",
                                             "commit", "publish"}}
  IN  /\ Cardinality(inRefresh) <= 1
      /\ \A p \in inRefresh : sessionTokenLock = p
      /\ sessionTokenLock # "free" => sessionTokenLock \in inRefresh
      /\ \A p \in inRefresh :
           pc[p] # "getChallenge" => loc[p].challenge = Challenge(issued)
      /\ \A p \in inRefresh :
           pc[p] \in {"commit", "publish"} =>
             loc[p].sessionToken = SessionToken(loc[p].challenge)
      /\ \A i \in 1..Len(infos) :
           /\ infos[i].sessionToken = SessionToken(infos[i].challenge)
           /\ \A j \in 1..Len(infos) :
                i < j => infos[i].challenge[2] < infos[j].challenge[2]

\* a second refresh is in its exchange while another caller waits for the lock
C18_Witness ==
  /\ Len(infos) >= 1
  /\ \E p, q \in Workers :
       /\ p # q
       /\ pc[p] = "getSessionToken" /\ sessionTokenLock = p
       /\ pc[q] = "refresh"

\* C19: the shared state is accessed under the lock only.  A goroutine whose
\* next step reads or writes the retry state (lines 111-114, 119, 124), or
\* writes the refresh time and the sessionInfo (lines 188-193), holds the
\* lock; and no two goroutines are at an access to the retry state at once.
C19_SharedStateUnderLock ==
  LET atRetryState == {p \in Procs : pc[p] \in {"shouldWait", "shouldWait140", "sleep",
                                                "rf_load_fc", "rf_store_fc", "rf145",
                                                "rf_load_cd", "rf_store_cd", "rf149",
                                                "reset", "reset160", "reset161"}}
      atSessionState == {p \in Procs : pc[p] \in {"commit", "publish"}}
  IN  /\ \A p \in atSessionState : sessionTokenLock = p
      /\ Cardinality(atRetryState) <= 1
      /\ \A p \in atRetryState : sessionTokenLock = p

\* C20: a real successful refresh updates the state in one step under the
\* lock.  The step that makes the new sessionInfo current is taken by the
\* holder of the lock and releases it; when it is done the previous
\* sessionInfo is retained, the refresh time is recorded and the retry state
\* is reset (failure count 0, current delay = minimum delay), so that no
\* other caller finds the new sessionInfo beside a retry state not yet reset.
C20_RefreshUpdatesAtomically ==
  [][sessionInfo' # sessionInfo =>
       /\ sessionTokenLock # "free" /\ sessionTokenLock' = Unlocked
       /\ oldSessionInfo' = sessionInfo
       /\ sessionTokenLastUpdate' # ZeroTime
       /\ sessionTokenLastUpdate' <= now'
       /\ retryConfig'.failureCount = 0
       /\ retryConfig'.currentDelay = retryConfig'.minDelay]_vars

\* C21: shouldWaitBeforeRetry returns true exactly when the failure count
\* is above 0 and the time since the last failure is below twice the
\* current delay, as they stand when it returns; with a failure count of 0 it
\* returns false, so the caller goes to refresh without sleeping.
C21_ShouldWaitExactly ==
  [][\A w \in Workers :
       /\ (pc[w] = "shouldWait" /\ pc'[w] # "shouldWait" /\ retryConfig.failureCount = 0)
            => pc'[w] = "refresh"
       /\ (pc[w] \in {"shouldWait", "shouldWait140"} /\ pc'[w] \in {"sleep", "refresh"})
            => ((pc'[w] = "sleep") <=>
                  (/\ retryConfig.failureCount > 0
                   /\ Since(retryConfig.lastFailure) < 2 * retryConfig.currentDelay))]_vars

\* C22: what a recordFailure does.  Its store of the failure count raises the
\* count by exactly 1, its stamp sets the last failure time to the current
\* time, its store of the delay doubles the current delay and its cap leaves
\* min(2 x previous delay, maximum delay); none of its steps changes the
\* minimum or maximum delay, the sessionInfo, the previous sessionInfo or the
\* refresh time.
C22_RecordFailureEffect ==
  [][\A w \in Workers :
       /\ (pc[w] = "rf_store_fc" /\ pc'[w] = "rf145") =>
            retryConfig'.failureCount = retryConfig.failureCount + 1
       /\ (pc[w] = "rf145" /\ pc'[w] = "rf_load_cd") =>
            retryConfig'.lastFailure = now
       /\ (pc[w] = "rf_store_cd" /\ pc'[w] = "rf149") =>
            retryConfig'.currentDelay = 2 * retryConfig.currentDelay
       /\ (pc[w] = "rf149" /\ pc'[w] = "done") =>
            retryConfig'.currentDelay = Min2(retryConfig.currentDelay, retryConfig.maxDelay)
       /\ (pc[w] \in {"rf_load_fc", "rf_store_fc", "rf145", "rf_load_cd", "rf_store_cd",
                      "rf149"} /\ pc'[w] # pc[w]) =>
            /\ retryConfig'.minDelay = retryConfig.minDelay
            /\ retryConfig'.maxDelay = retryConfig.maxDelay
            /\ UNCHANGED <<sessionInfo, oldSessionInfo, infos, sessionTokenLastUpdate>>]_vars

\* C23: a caller that finds the backoff window active (failure count above
\* 0, less than twice the current delay since the last failure) sleeps before
\* it calls refresh: it starts a sleep of the current delay, it goes on to
\* refresh only when that time has passed, and it has not called refresh
\* before.  It never holds the lock while it is about to sleep or sleeping,
\* and a caller waiting to refresh while the lock is free can enter refresh
\* whoever is sleeping.
C23_SleepBeforeRefresh ==
  [][\A w \in Workers :
       /\ (/\ pc[w] = "shouldWait140" /\ pc'[w] # pc[w]
           /\ retryConfig.failureCount > 0
           /\ Since(retryConfig.lastFailure) < 2 * retryConfig.currentDelay)
            => pc'[w] = "sleep"
       /\ (pc[w] = "sleep" /\ pc'[w] # pc[w]) =>
            /\ pc'[w] = "sleeping"
            /\ loc'[w].wakeAt = now + retryConfig.currentDelay
            /\ gh[w].nRefresh = 0
       /\ (pc[w] = "sleeping" /\ pc'[w] # pc[w]) =>
            /\ pc'[w] = "refresh"
            /\ now >= loc[w].wakeAt
            /\ gh[w].nRefresh = 0
       /\ pc'[w] \in {"sleep", "sleeping"} =>
            /\ sessionTokenLock' # w
            /\ \A p \in Procs \ {w} :
                 (pc'[p] = "refresh" /\ sessionTokenLock' = Unlocked /\ NoneDone')
                   => (ENABLED RefreshEnter(p))']_vars

\* a caller sleeps while another one is in its login exchange
C23_Witness ==
  \E w, p \in Workers :
    /\ w # p
    /\ pc[w] = "sleeping" /\ now < loc[w].wakeAt
    /\ pc[p] = "getSessionToken" /\ sessionTokenLock = p

\* C24: no deadlock on the refresh lock.  Every step by which a goroutine
\* leaves refresh (challenge error, session-token error, success) releases
\* the lock, the debounce no-op leaves it free, and whoever holds the lock is
\* inside refresh; so, every transport call returning and every goroutine
\* being scheduled, each caller waiting to enter refresh eventually is past
\* it: it has returned from refresh.
C24_NoDeadlockOnLock ==
  /\ [][\A p \in Procs :
          /\ (pc[p] \in {"getChallenge", "getSessionToken", "commit", "publish"}
              /\ pc'[p] \notin {"getChallenge", "getSessionToken", "commit", "publish"})
               => sessionTokenLock = p /\ sessionTokenLock' = "free"
          /\ (pc[p] = "refresh"
              /\ pc'[p] \notin {"refresh", "getChallenge"})
               => sessionTokenLock = "free" /\ sessionTokenLock' = "free"
          /\ sessionTokenLock' = p
               => pc'[p] \in {"getChallenge", "getSessionToken", "commit", "publish"}]_vars
  /\ \A p \in Procs :
       (pc[p] = "refresh") ~>
         (pc[p] \notin {"refresh", "getChallenge", "getSessionToken", "commit", "publish"})

\* a caller that has not been through refresh yet waits at the lock while
\* the holder is in its login exchange
C24_Witness ==
  \E p, q \in Workers :
    /\ p # q
    /\ pc[p] = "getChallenge" /\ sessionTokenLock = p
    /\ pc[q] = "refresh" /\ gh[q].nRefresh = 0
    /\ ~ ENABLED RefreshEnter(q)

\* C25: SessionInfo values are immutable snapshots.  No step changes the
\* challenge or the session token of a SessionInfo that exists, none is ever
\* freed while the program runs, every login that succeeds allocates a new
\* one and makes it current, and every SessionInfo pairs a challenge with the
\* token the device returned for that challenge.
C25_SessionInfoImmutable ==
  [][/\ Len(infos') >= Len(infos)
     /\ \A i \in 1..Len(infos) : infos'[i] = infos[i]
     /\ \A p \in Procs :
          (pc[p] = "publish" /\ pc'[p] # "publish") =>
            /\ Len(infos') = Len(infos) + 1
            /\ sessionInfo' = Len(infos')
            /\ infos'[sessionInfo'] = [challenge |-> loc[p].challenge,
                                       sessionToken |-> loc[p].sessionToken]
     /\ \A i \in 1..Len(infos') :
          infos'[i].sessionToken = SessionToken(infos'[i].challenge)]_vars

\* a caller sent the token of the first SessionInfo, a later login made a
\* second one current, and the first is the retained previous one
C25_Witness ==
  /\ Len(infos) >= 2
  /\ sessionInfo = 2 /\ oldSessionInfo = 1
  /\ \E w \in Workers : gh[w].hdr1 = infos[1].sessionToken /\ pc[w] # "idle"

\* C26: the retained previous SessionInfo.  Whenever a login makes a new
\* SessionInfo current, the previous slot holds the one that was current just
\* before (none after the first login); the previous slot is written by that
\* refresh only, between two refreshes it is the SessionInfo allocated just
\* before the current one, the current slot is only ever set to a newly
\* allocated SessionInfo, and every request carries the token of the current
\* slot, which is not the token of the previous one.
C26_PreviousRetainedNeverUsed ==
  [][/\ sessionInfo' # sessionInfo =>
          /\ oldSessionInfo' = sessionInfo
          /\ Len(infos') = Len(infos) + 1
          /\ sessionInfo' = Len(infos')
     /\ oldSessionInfo' # oldSessionInfo =>
          /\ oldSessionInfo' = sessionInfo
          /\ \E p \in Procs : pc[p] = "commit" /\ pc'[p] = "publish"
     /\ (\A p \in Procs : pc'[p] # "publish") =>
          oldSessionInfo' = (IF sessionInfo' = NilInfo THEN NilInfo ELSE sessionInfo' - 1)
     /\ (sessionInfo' = 1 /\ \A p \in Procs : pc'[p] # "publish") =>
          oldSessionInfo' = NilInfo
     /\ \A w \in Workers :
          gh'[w].nAction = gh[w].nAction + 1 =>
            LET sent == IF gh'[w].nAction = 1 THEN gh'[w].hdr1 ELSE gh'[w].hdr2
            IN  /\ sessionInfo # NilInfo
                /\ sent = infos[sessionInfo].sessionToken
                /\ oldSessionInfo \notin {NilInfo, sessionInfo} =>
                     sent # infos[oldSessionInfo].sessionToken]_vars

\* a caller whose first attempt carried the token that is now the previous
\* one has retried with the token of the current SessionInfo
C26_Witness ==
  /\ oldSessionInfo # NilInfo /\ sessionInfo = oldSessionInfo + 1
  /\ \E w \in Workers :
       /\ gh[w].nAction = 2
       /\ gh[w].hdr1 = infos[oldSessionInfo].sessionToken
       /\ gh[w].hdr2 = infos[sessionInfo].sessionToken

\* C27: a refresh that fails leaves the session untouched.  When getChallenge
\* fails refresh returns at once, with the transport error of getChallenge and
\* without the session-token exchange; when getSessionToken fails refresh returns
\* its error; in both cases the current SessionInfo, the previous one and the
\* last-refresh time keep their values, no SessionInfo is allocated, and the
\* next refresh is debounced exactly if it was before.
C27_FailedRefreshLeavesSession ==
  [][\A p \in Procs :
       /\ (pc[p] = "getChallenge" /\ sessionTokenLock = p /\ sessionTokenLock' # p) =>
            /\ issued' = issued
            /\ gh'[p].refreshErr = ErrChallenge
            /\ p = Main => gh'[p].result = ErrChallenge
       /\ (pc[p] = "getSessionToken" /\ sessionTokenLock = p /\ sessionTokenLock' # p) =>
            /\ gh'[p].refreshErr = ErrSession
            /\ p = Main => gh'[p].result = ErrSession
       /\ (pc[p] \in {"getChallenge", "getSessionToken"}
           /\ sessionTokenLock = p /\ sessionTokenLock' # p) =>
            /\ pc'[p] = (IF p = Main THEN "failed" ELSE "rf_load_fc")
            /\ sessionInfo' = sessionInfo
            /\ oldSessionInfo' = oldSessionInfo
            /\ infos' = infos
            /\ sessionTokenLastUpdate' = sessionTokenLastUpdate
            /\ Debounced' = Debounced
       /\ (pc[p] \in {"getChallenge", "getSessionToken"}
           /\ pc'[p] \in {"getSessionToken", "commit"}) =>
            sessionTokenLock' = p /\ gh'[p].refreshErr = NoErr]_vars

\* a caller's refresh has failed at getChallenge more than 5 seconds after
\* the only login, whose SessionInfo is still the current one
C27_Witness ==
  \E w \in Workers :
    /\ pc[w] = "rf_load_fc"
    /\ gh[w].refreshErr = ErrChallenge
    /\ sessionInfo = 1 /\ oldSessionInfo = NilInfo
    /\ sessionTokenLastUpdate # ZeroTime
    /\ ~ Debounced

\* C28: a failure count of 0 goes with a current delay equal to the minimum
\* delay.  Checked in the states where no goroutine is inside recordFailure
\* or resetRetryState, so that a count of 0 beside an elevated delay is what
\* the two functions leave behind, not a value in the middle of an update.
C28_ZeroCountMeansMinDelay ==
  (\A p \in Procs : pc[p] \notin {"rf_load_fc", "rf_store_fc", "rf145", "rf_load_cd",
                                  "rf_store_cd", "rf149", "reset", "reset160", "reset161"})
    => (retryConfig.failureCount = 0 =>
          retryConfig.currentDelay = retryConfig.minDelay)

\* C29: once construction has succeeded the session is never uninitialised
\* again.  The current SessionInfo is present, it is one of the allocated
\* SessionInfos, and its session token is the token the device returned in
\* the exchange for the challenge stored beside it, one the device did issue.
C29_SessionStaysInitialised ==
  pc[Main] = "ready" =>
    /\ sessionInfo # NilInfo
    /\ sessionInfo \in 1..Len(infos)
    /\ infos[sessionInfo].sessionToken = SessionToken(infos[sessionInfo].challenge)
    /\ \E n \in 1..issued : infos[sessionInfo].challenge = Challenge(n)

\* after construction one refresh has failed and a later one has replaced
\* the SessionInfo of the constructor
C29_Witness ==
  /\ pc[Main] = "ready"
  /\ sessionInfo = 2
  /\ issued >= 3
  /\ \E w \in Workers : gh[w].refreshErr # NoErr

\* C30: a refresh that returns nil through the debounce inside Get/Post.
\* The debounced refresh performs no login exchange and changes nothing of
\* the session; the caller then runs resetRetryState, after which the failure
\* count is 0 and the current delay is the minimum delay, and retries the
\* call exactly once, with the session token its failed attempt carried.
C30_DebouncedRetry ==
  [][\A w \in Workers :
       /\ (pc[w] = "refresh" /\ pc'[w] # "refresh" /\ Debounced) =>
            /\ pc'[w] = "reset"
            /\ ~ gh'[w].real
            /\ issued' = issued /\ infos' = infos
            /\ sessionInfo' = sessionInfo /\ oldSessionInfo' = oldSessionInfo
            /\ sessionTokenLastUpdate' = sessionTokenLastUpdate
       /\ (pc[w] \in {"reset", "reset160", "reset161"} /\ pc'[w] = "action2"
           /\ ~ gh[w].real) =>
            /\ gh'[w].nReset = 1
            /\ retryConfig'.failureCount = 0
            /\ retryConfig'.currentDelay = retryConfig'.minDelay
       /\ (pc[w] = "action2" /\ pc'[w] # "action2" /\ ~ gh[w].real) =>
            /\ gh'[w].nAction = 2
            /\ pc'[w] = "done"
            /\ gh'[w].hdr2 = gh[w].hdr1]_vars

\* C31: a Get/Post whose first attempt succeeds.  It returns nil after that
\* one transport call, with no refresh, no sleep, no recordFailure and no
\* resetRetryState, and neither the attempt nor the return changes the failure
\* count, the current delay, the last failure time, the SessionInfo, the
\* previous SessionInfo or the last-refresh time.
C31_SuccessChangesNothing ==
  [][\A w \in Workers :
       /\ (gh'[w].nAction = 1 /\ gh[w].nAction = 0 /\ gh'[w].firstErr = NoErr) =>
            /\ pc'[w] = "done"
            /\ gh'[w].result = NoErr
            /\ gh'[w].nRefresh = 0 /\ gh'[w].nSleep = 0
            /\ gh'[w].nRecord = 0 /\ gh'[w].nReset = 0
            /\ retryConfig' = retryConfig
            /\ sessionInfo' = sessionInfo /\ oldSessionInfo' = oldSessionInfo
            /\ infos' = infos /\ issued' = issued
            /\ sessionTokenLastUpdate' = sessionTokenLastUpdate
            /\ sessionTokenLock' = sessionTokenLock
       /\ (gh[w].nAction >= 1 /\ gh[w].firstErr = NoErr /\ pc'[w] # pc[w]) =>
            /\ pc[w] = "done" /\ pc'[w] = "idle"
            /\ gh[w].nAction = 1 /\ gh[w].result = NoErr
            /\ gh[w].nRefresh = 0 /\ gh[w].nSleep = 0
            /\ gh[w].nRecord = 0 /\ gh[w].nReset = 0
            /\ retryConfig' = retryConfig
            /\ sessionInfo' = sessionInfo /\ oldSessionInfo' = oldSessionInfo
            /\ infos' = infos /\ issued' = issued
            /\ sessionTokenLastUpdate' = sessionTokenLastUpdate
            /\ sessionTokenLock' = sessionTokenLock]_vars

\* a call has succeeded at its first attempt while the backoff is elevated
C31_Witness ==
  \E w \in Workers :
    /\ pc[w] = "done"
    /\ gh[w].nAction = 1 /\ gh[w].firstErr = NoErr /\ gh[w].result = NoErr
    /\ retryConfig.failureCount > 0
    /\ retryConfig.currentDelay > retryConfig.minDelay
    /\ \A p \in Procs \ {w} : pc[p] \in {"idle", "ready"}

\* C32: the last-refresh time never goes back and moves only when a real
\* login exchange has succeeded: the step that changes it is taken by the
\* holder of the lock, after its challenge and its session token were both
\* obtained, and sets it to the current time.  A debounced refresh and a
\* failed refresh leave it where it was.
C32_LastUpdateMonotonic ==
  [][/\ sessionTokenLastUpdate' >= sessionTokenLastUpdate
     /\ sessionTokenLastUpdate' # sessionTokenLastUpdate =>
          /\ sessionTokenLastUpdate' = now
          /\ \E p \in Procs :
               /\ pc[p] = "commit" /\ pc'[p] = "publish"
               /\ sessionTokenLock = p
               /\ gh[p].real /\ gh[p].refreshErr = NoErr
               /\ loc[p].challenge # NoTok /\ loc[p].sessionToken # NoTok
     /\ \A p \in Procs :
          /\ (pc[p] = "refresh" /\ pc'[p] # "refresh" /\ Debounced) =>
               sessionTokenLastUpdate' = sessionTokenLastUpdate
          /\ (gh'[p].refreshErr # NoErr /\ gh[p].refreshErr = NoErr) =>
               sessionTokenLastUpdate' = sessionTokenLastUpdate]_vars

\* a refresh has been debounced against the time of a second login, made
\* by another caller, and time has gone on since that login
C32_Witness ==
  /\ sessionTokenLastUpdate >= DebounceSecs
  /\ now > sessionTokenLastUpdate
  /\ Len(infos) = 2
  /\ \E w \in Workers :
       /\ gh[w].nRefresh = 1 /\ ~ gh[w].real
       /\ pc[w] \in {"reset", "reset160", "reset161", "action2"}

\* C33: the two login requests carry no session header.  Every GET of the
\* challenge and every POST of the session-token request handed to the
\* transport is undecorated, whether or not a SessionInfo is set and whatever
\* its token is, while the API requests made once a SessionInfo is set do
\* carry the session header.
C33_LoginWithoutSessionHeader ==
  /\ \A r \in wire :
       r.url \in {getChallengeURL, getSessionTokenURL} => r.header = {}
  /\ \A r \in wire :
       r.url = ApiURL => \E t \in SessionTexts : r.header = {<<"X-Fbx-App-Auth", t>>}
  /\ lg.n >= 2 => lg.sessionInfo.set

\* a second login is under way, after an API request that carried the token
\* of the first: its challenge GET and its session-token POST were both sent
\* while that rejected token was still the current one
C33_Witness ==
  /\ lg.n = 2 /\ lg.pc = "idle"
  /\ lg.sessionInfo.set /\ lg.sessionInfo.sessionToken = "sess-2"
  /\ \E r \in wire : r.url = ApiURL /\ r.header = {<<"X-Fbx-App-Auth", "sess-1">>}
  /\ \E r \in wire : r.url = getSessionTokenURL /\ r.header = {}
                       /\ <<"password", Password(appToken, lg.challenge)>> \in r.body

\* C34: Get/Post hand exactly one decorator to the transport, the one that
\* sets the session header.  Every API request handed to the transport, first
\* attempt or retry, is the request decorated by addHeader alone, and no
\* header that a callback of the caller would set is on any request.
C34_CallerCallbacksIgnored ==
  [][/\ (lg.pc = "idle" /\ (wire' # wire \/ lg' # lg)) =>
          /\ wire' = wire \cup {[method |-> "GET", url |-> ApiURL,
                                 header |-> loginHeader, body |-> {}]}
          /\ lg'.callbacks \in CallerCallbacks
          /\ lg.retry => (lg'.callbacks = lg.callbacks /\ ~ lg'.retry)
     /\ \A r \in wire' :
          /\ r.header \cap UNION CallerCallbacks = {}
          /\ r.url = ApiURL => Cardinality(r.header) = 1]_vars

\* a call whose caller supplied a callback got an authentication error, the
\* login was done and the call has been retried with the new token
C34_Witness ==
  /\ lg.pc = "idle" /\ lg.n = 2 /\ ~ lg.retry
  /\ lg.callbacks = {<<"X-Caller", "set">>}
  /\ lg.sessionInfo.sessionToken = "sess-2"
  /\ \E r \in wire : r.url = ApiURL /\ r.header = {<<"X-Fbx-App-Auth", "sess-2">>}

====
